---------------------------- MODULE Spec2Model ----------------------------
(***************************************************************************)
(* Model of app.py: the decision rules of the accounting-firm offer        *)
(* configurator.  A ClientProfile is drawn from the declared vocabularies, *)
(* then the script evaluates infer_segment(profile) and then               *)
(* compute_offers(profile) (app.py lines 348-349).                         *)
(*                                                                         *)
(* Strings are written without accents and with ASCII comparison signs     *)
(* ("Renforcee" for the source's accented word, ">=" for the source's      *)
(* one-character sign): the strings are only compared for equality.        *)
(***************************************************************************)
EXTENDS Integers, Sequences, FiniteSets, TLC

VARIABLES profile, segment_info, offers, offers_info, pc

vars == <<profile, segment_info, offers, offers_info, pc>>

---------------------------------------------------------------------------
(* Vocabularies                                                            *)

SECTEURS == <<"BTP", "Commerce", "Services", "Industrie", "Agricole",
              "Professions liberales", "E-commerce", "Autre">>

CONTRATS == <<"Aucun salarie", "CDD", "CDI", "Mixte">>

POLLUTION == <<"Faible/Non", "Moyenne", "Importante">>

PATRIMOINE == <<"Modeste", "Important">>

DIGITAL == <<"Pas informatique", "Informatique rudimentaire", "Informatique avancee">>

HORIZON_RETRAITE == <<"Loin", "A 5 ans", "< 2 ans">>

\* The options of the "Particularites fiscales" multiselect.
FISCAL_OPTIONS == {"TVA particuliers", "Credit d'impot", "JEI", "ZFU/ZRR", "LMNP",
                   "International", "BIC/BNC mixte", "Holding", "SCI"}

Range(s) == {s[i] : i \in DOMAIN s}

PRICING_TABLE ==
  [code \in {"social_basique", "social_plus", "social_premium", "rse_diag",
             "rse_reporting", "coaching_light", "coaching_pro", "patrimoine_base",
             "patrimoine_avance", "fiscal_part", "tresorerie", "digital_start",
             "digital_full", "btp_pack", "gestion_budget", "revue_qualite",
             "succession", "retraite", "international"} |->
    CASE code = "social_basique"    -> [libelle |-> "Paie & obligations sociales - Pack Essentiel", prix |-> 180]
      [] code = "social_plus"       -> [libelle |-> "Paie & RH - Pack Plus (audit + procedures)", prix |-> 350]
      [] code = "social_premium"    -> [libelle |-> "Paie & RH - Pack Premium (SIRH + KPI sociaux)", prix |-> 550]
      [] code = "rse_diag"          -> [libelle |-> "Diagnostic RSE & plan d'actions", prix |-> 1200]
      [] code = "rse_reporting"     -> [libelle |-> "Reporting RSE/CSRD adapte TPE/PME", prix |-> 450]
      [] code = "coaching_light"    -> [libelle |-> "Coaching dirigeant - Pack Starter (1h/mois)", prix |-> 190]
      [] code = "coaching_pro"      -> [libelle |-> "Coaching dirigeant - Pack Pro (2h/mois + ateliers)", prix |-> 390]
      [] code = "patrimoine_base"   -> [libelle |-> "Bilan patrimonial dirigeant", prix |-> 900]
      [] code = "patrimoine_avance" -> [libelle |-> "Ingenierie patrimoniale avancee (holdings/SCI/IF)", prix |-> 1800]
      [] code = "fiscal_part"       -> [libelle |-> "Traitements fiscaux particuliers (notes specifiques)", prix |-> 380]
      [] code = "tresorerie"        -> [libelle |-> "Cash management & previsionnels de tresorerie", prix |-> 320]
      [] code = "digital_start"     -> [libelle |-> "Digitalisation - Starter (outils facturation, banque)", prix |-> 150]
      [] code = "digital_full"      -> [libelle |-> "Digitalisation - Full (OCR, Hub, flux API)", prix |-> 420]
      [] code = "btp_pack"          -> [libelle |-> "Pack BTP (suivi chantiers, retenues, DGD)", prix |-> 350]
      [] code = "gestion_budget"    -> [libelle |-> "Tableaux de bord & budget (mensuel)", prix |-> 280]
      [] code = "revue_qualite"     -> [libelle |-> "Revue Qualite comptable & fiscale (trimestrielle)", prix |-> 240]
      [] code = "succession"        -> [libelle |-> "Anticipation transmission / pacte Dutreil (pre-etude)", prix |-> 1200]
      [] code = "retraite"          -> [libelle |-> "Bilan retraite & optimisation (etude complete)", prix |-> 750]
      [] code = "international"     -> [libelle |-> "International (TVA/DEB/DES/EMEA sanity check)", prix |-> 650]]

---------------------------------------------------------------------------
(* safe_add and the segmentation engine                                    *)

\* safe_add with the append moved under an else: a new key gets an empty list.
safe_add_Else(dic, key, value) ==
  IF key \notin DOMAIN dic
  THEN [k \in DOMAIN dic \cup {key} |-> IF k = key THEN <<>> ELSE dic[k]]
  ELSE [dic EXCEPT ![key] = Append(@, value)]

\* safe_add(dic, key, value): create the list on first use, then append.
safe_add(dic, key, value) ==
  LET base == IF key \in DOMAIN dic THEN dic ELSE [k \in DOMAIN dic \cup {key} |->
                                                     IF k = key THEN <<>> ELSE dic[k]]
  IN  [base EXCEPT ![key] = Append(@, value)]

\* " | ".join(segment)
RECURSIVE JoinSegment(_)
JoinSegment(segment) ==
  IF Len(segment) = 0 THEN ""
  ELSE IF Len(segment) = 1 THEN segment[1]
  ELSE segment[1] \o " | " \o JoinSegment(Tail(segment))

\* Locals of infer_segment after lines 77-79.
SegmentLocals0 ==
  [segment |-> <<>>, risk_flags |-> <<>>, compliance_intensity |-> "Standard"]

\* The size rule with the threshold compared by <= instead of <.
SegmentBySize_Le(p, s) ==
  IF p.nb_salaries = 0 \/ p.type_contrats = "Aucun salarie"
  THEN [s EXCEPT !.segment = Append(@, "Solo/Tres petite structure")]
  ELSE IF p.nb_salaries <= 11
  THEN [s EXCEPT !.segment = Append(@, "TPE < 11")]
  ELSE [s EXCEPT !.segment = Append(@, "PME >= 11")]

\* Lines 81-87: segment by size.
SegmentBySize(p, s) ==
  IF p.nb_salaries = 0 \/ p.type_contrats = "Aucun salarie"
  THEN [s EXCEPT !.segment = Append(@, "Solo/Tres petite structure")]
  ELSE IF p.nb_salaries < 11
  THEN [s EXCEPT !.segment = Append(@, "TPE < 11")]
  ELSE [s EXCEPT !.segment = Append(@, "PME >= 11")]

\* Lines 89-97: sector specifics.
SectorSpecifics(p, s) ==
  LET s1 == IF p.secteur = "BTP"
            THEN [s EXCEPT !.segment = Append(@, "BTP"),
                           !.risk_flags = Append(@, "Gestion des chantiers et retenues de garantie"),
                           !.compliance_intensity = "Renforcee"]
            ELSE s
      s2 == IF p.secteur = "E-commerce"
            THEN [s1 EXCEPT !.risk_flags = Append(@, "TVA OSS/IOSS et plateformes")]
            ELSE s1
  IN  IF p.secteur = "Industrie"
      THEN [s2 EXCEPT !.risk_flags = Append(@, "Stocks et immo complexes")]
      ELSE s2

\* The HR rule with the threshold compared by > instead of >=.
HRComplexity_Strict(p, s) ==
  IF p.nb_salaries > 0
  THEN LET s1 == IF p.presence_cadres
                 THEN [s EXCEPT !.risk_flags = Append(@, "Cadres & forfait jours")]
                 ELSE s
       IN  IF p.nb_salaries > 11
           THEN [s1 EXCEPT !.risk_flags = Append(@, "CSE / obligations sociales renforcees"),
                           !.compliance_intensity = "Renforcee"]
           ELSE s1
  ELSE s

\* Lines 99-105: HR complexity.
HRComplexity(p, s) ==
  IF p.nb_salaries > 0
  THEN LET s1 == IF p.presence_cadres
                 THEN [s EXCEPT !.risk_flags = Append(@, "Cadres & forfait jours")]
                 ELSE s
       IN  IF p.nb_salaries >= 11
           THEN [s1 EXCEPT !.risk_flags = Append(@, "CSE / obligations sociales renforcees"),
                           !.compliance_intensity = "Renforcee"]
           ELSE s1
  ELSE s

\* Lines 107-112: RSE.
SegmentRSE(p, s) ==
  IF p.rse_sensible
  THEN IF p.rse_pollution = "Importante"
       THEN [s EXCEPT !.risk_flags = Append(@, "Enjeux environnementaux critiques")]
       ELSE IF p.rse_pollution = "Moyenne"
       THEN [s EXCEPT !.risk_flags = Append(@, "Suivi empreinte & conformite environnementale")]
       ELSE s
  ELSE s

\* Lines 114-118: digital.
SegmentDigital(p, s) ==
  IF p.digitalisation = "Pas informatique"
  THEN [s EXCEPT !.risk_flags = Append(@, "Faible digitalisation (risque d'erreurs et couts)")]
  ELSE IF p.digitalisation = "Informatique rudimentaire"
  THEN [s EXCEPT !.risk_flags = Append(@, "Digitalisation partielle a structurer")]
  ELSE s

\* Lines 120-125: dirigeant / transmission.
SegmentTransmission(p, s) ==
  LET s1 == IF p.proche_retraite \in {"A 5 ans", "< 2 ans"}
            THEN [s EXCEPT !.risk_flags = Append(@, "Horizon retraite a anticiper")]
            ELSE s
  IN  IF p.succession_envisagee
      THEN [s1 EXCEPT !.risk_flags = Append(@, "Projet de succession / transmission")]
      ELSE s1

\* Lines 127-136: fiscal particularities.
SegmentFiscal(p, s) ==
  LET s1 == IF "International" \in p.particulier_fiscal
            THEN [s EXCEPT !.risk_flags = Append(@, "Flux internationaux (prix de transfert/TVA)"),
                           !.compliance_intensity = "Renforcee"]
            ELSE s
      s2 == IF "Holding" \in p.particulier_fiscal \/ "SCI" \in p.particulier_fiscal
            THEN [s1 EXCEPT !.risk_flags = Append(@, "Groupe / structuration patrimoniale")]
            ELSE s1
  IN  IF p.clients_particuliers_avec_tva
      THEN [s2 EXCEPT !.risk_flags = Append(@, "Risque TVA B2C (regles specifiques)")]
      ELSE s2

\* The locals of infer_segment after each block of rules, in evaluation order.
SegmentTrace(p) ==
  LET s0 == SegmentLocals0
      s1 == SegmentBySize(p, s0)
      s2 == SectorSpecifics(p, s1)
      s3 == HRComplexity(p, s2)
      s4 == SegmentRSE(p, s3)
      s5 == SegmentDigital(p, s4)
      s6 == SegmentTransmission(p, s5)
      s7 == SegmentFiscal(p, s6)
  IN  <<s0, s1, s2, s3, s4, s5, s6, s7>>

\* infer_segment(profile): lines 75-142.
infer_segment(p) ==
  LET tr == SegmentTrace(p)
      s  == tr[Len(tr)]
  IN  [segment |-> IF Len(s.segment) > 0 THEN JoinSegment(s.segment) ELSE "Standard",
       risk_flags |-> s.risk_flags,
       compliance_intensity |-> s.compliance_intensity]

---------------------------------------------------------------------------
(* The offer engine                                                        *)

\* Locals of compute_offers after lines 146-147.  raised records a KeyError
\* of the catalog lookup at line 150: once it is raised nothing else runs.
EmptyDict == [k \in {} |-> <<>>]

OfferLocals0 == [offers |-> <<>>, rationales |-> EmptyDict, raised |-> FALSE]

\* add_offer(code, reason): lines 149-152.
add_offer(st, code, reason) ==
  IF st.raised THEN st
  ELSE IF code \notin DOMAIN PRICING_TABLE THEN [st EXCEPT !.raised = TRUE]
  ELSE LET info == PRICING_TABLE[code]
       IN  [st EXCEPT !.offers = Append(@, [code |-> code, libelle |-> info.libelle,
                                            prix |-> info.prix]),
                      !.rationales = safe_add(@, info.libelle, reason)]

\* The social rule with the else lost: the essential pack goes to every employer.
OfferSocial_NoElse(p, st) ==
  IF p.nb_salaries > 0
  THEN LET st1 == IF p.nb_salaries >= 11 \/ p.presence_cadres
                  THEN add_offer(st, "social_plus", ">= 11 salaries et/ou presence de cadres")
                  ELSE st
           st2 == add_offer(st1, "social_basique", "Paie et obligations sociales standard")
       IN  IF p.nb_salaries >= 25
           THEN add_offer(st2, "social_premium", "Effectif significatif -> SIRH & KPI sociaux")
           ELSE st2
  ELSE st

\* The social rule with the premium line copied from the plus line, code unchanged.
OfferSocial_CopyPaste(p, st) ==
  IF p.nb_salaries > 0
  THEN LET st1 == IF p.nb_salaries >= 11 \/ p.presence_cadres
                  THEN add_offer(st, "social_plus", ">= 11 salaries et/ou presence de cadres")
                  ELSE add_offer(st, "social_basique", "Paie et obligations sociales standard")
       IN  IF p.nb_salaries >= 25
           THEN add_offer(st1, "social_plus", "Effectif significatif -> SIRH & KPI sociaux")
           ELSE st1
  ELSE st

\* Lines 154-161: social / HR.
OfferSocial(p, st) ==
  IF p.nb_salaries > 0
  THEN LET st1 == IF p.nb_salaries >= 11 \/ p.presence_cadres
                  THEN add_offer(st, "social_plus", ">= 11 salaries et/ou presence de cadres")
                  ELSE add_offer(st, "social_basique", "Paie et obligations sociales standard")
       IN  IF p.nb_salaries >= 25
           THEN add_offer(st1, "social_premium", "Effectif significatif -> SIRH & KPI sociaux")
           ELSE st1
  ELSE st

\* Lines 163-167: RSE.
OfferRSE(p, st) ==
  IF p.rse_sensible
  THEN LET st1 == add_offer(st, "rse_diag", "Client sensible RSE -> diagnostic & plan d'actions")
       IN  IF p.rse_pollution \in {"Moyenne", "Importante"}
           THEN add_offer(st1, "rse_reporting", "Suivi des indicateurs RSE (empreinte, energie, dechets)")
           ELSE st1
  ELSE st

\* Lines 169-173: coaching dirigeant.
OfferCoaching(p, st) ==
  LET st1 == IF p.coaching_client /\ p.patrimoine_dirigeant = "Modeste"
             THEN add_offer(st, "coaching_light", "Accompagnement dirigeant regulier (starter)")
             ELSE st
  IN  IF p.coaching_client /\ p.patrimoine_dirigeant = "Important"
      THEN add_offer(st1, "coaching_pro", "Accompagnement renforce pour enjeux strategiques")
      ELSE st1

\* Lines 175-179: patrimonial.
OfferPatrimonial(p, st) ==
  LET st1 == IF p.patrimoniale \/ p.patrimoine_dirigeant = "Important"
             THEN add_offer(st, "patrimoine_base", "Besoin patrimonial identifie")
             ELSE st
  IN  IF ("Holding" \in p.particulier_fiscal \/ "SCI" \in p.particulier_fiscal)
         /\ (p.patrimoniale \/ p.patrimoine_dirigeant = "Important")
      THEN add_offer(st1, "patrimoine_avance", "Structuration groupe / immo patrimonial")
      ELSE st1

\* Lines 181-185: fiscal particularities.
OfferFiscal(p, st) ==
  IF Cardinality(p.particulier_fiscal) > 0
  THEN LET st1 == add_offer(st, "fiscal_part", "Cas fiscaux specifiques a documenter")
       IN  IF "International" \in p.particulier_fiscal
           THEN add_offer(st1, "international", "Flux intracommunautaires / export -> controles dedies")
           ELSE st1
  ELSE st

\* Lines 187-191: cash / gestion.
OfferGestion(p, st) ==
  LET st1 == IF p.caisse \/ p.secteur \in {"E-commerce", "Industrie", "BTP"}
             THEN add_offer(st, "tresorerie", "Volatilite de tresorerie / besoin de pilotage")
             ELSE st
      st2 == add_offer(st1, "gestion_budget", "Tableaux de bord et budget mensuel utiles a tout profil PME/TPE")
  IN  add_offer(st2, "revue_qualite", "Securiser la qualite comptable et fiscale")

\* The digitalisation rule with the two codes swapped.
OfferDigital_Swapped(p, st) ==
  IF p.digitalisation = "Pas informatique"
  THEN add_offer(st, "digital_full", "Mettre en place la base des outils digitaux")
  ELSE IF p.digitalisation = "Informatique rudimentaire"
  THEN add_offer(st, "digital_start", "Structurer et automatiser les flux (OCR/API/Banque)")
  ELSE st

\* Lines 193-197: digitalisation.
OfferDigital(p, st) ==
  IF p.digitalisation = "Pas informatique"
  THEN add_offer(st, "digital_start", "Mettre en place la base des outils digitaux")
  ELSE IF p.digitalisation = "Informatique rudimentaire"
  THEN add_offer(st, "digital_full", "Structurer et automatiser les flux (OCR/API/Banque)")
  ELSE st

\* The sector rule with a code the catalog does not hold.
OfferSector_Typo(p, st) ==
  IF p.secteur = "BTP"
  THEN add_offer(st, "pack_btp", "Specificites chantiers (retenues, situations, DGD)")
  ELSE st

\* Lines 199-201: sector packs.
OfferSector(p, st) ==
  IF p.secteur = "BTP"
  THEN add_offer(st, "btp_pack", "Specificites chantiers (retenues, situations, DGD)")
  ELSE st

\* Lines 203-207: transmission / retraite.
OfferTransmission(p, st) ==
  LET st1 == IF p.proche_retraite \in {"A 5 ans", "< 2 ans"}
             THEN add_offer(st, "retraite", "Horizon de depart -> bilan retraite & options")
             ELSE st
  IN  IF p.succession_envisagee
      THEN add_offer(st1, "succession", "Projet de transmission -> pre-etude Dutreil/holding")
      ELSE st1

\* Lines 154-207: every rule, in evaluation order.
OfferRules(p) ==
  LET st0 == OfferLocals0
      st1 == OfferSocial(p, st0)
      st2 == OfferRSE(p, st1)
      st3 == OfferCoaching(p, st2)
      st4 == OfferPatrimonial(p, st3)
      st5 == OfferFiscal(p, st4)
      st6 == OfferGestion(p, st5)
      st7 == OfferDigital(p, st6)
      st8 == OfferSector(p, st7)
  IN  OfferTransmission(p, st8)

\* The deduplication pass inserting each kept offer at the front of the list.
RECURSIVE Deduplicate_Prepend(_, _, _)
Deduplicate_Prepend(raw, seen, unique_offers) ==
  IF raw = <<>> THEN unique_offers
  ELSE LET o == Head(raw)
       IN  IF o.code \notin seen
           THEN Deduplicate_Prepend(Tail(raw), seen \cup {o.code}, <<o>> \o unique_offers)
           ELSE Deduplicate_Prepend(Tail(raw), seen, unique_offers)

\* Lines 209-215: keep the first occurrence of each code.
RECURSIVE Deduplicate(_, _, _)
Deduplicate(raw, seen, unique_offers) ==
  IF raw = <<>> THEN unique_offers
  ELSE LET o == Head(raw)
       IN  IF o.code \notin seen
           THEN Deduplicate(Tail(raw), seen \cup {o.code}, Append(unique_offers, o))
           ELSE Deduplicate(Tail(raw), seen, unique_offers)

\* The total assigned instead of accumulated: only the last price is left.
SumPrix_Assign(os) == IF os = <<>> THEN 0 ELSE os[Len(os)].prix

\* Line 217: sum(o["prix"] for o in unique_offers).
RECURSIVE SumPrix(_)
SumPrix(os) == IF os = <<>> THEN 0 ELSE Head(os).prix + SumPrix(Tail(os))

\* compute_offers(profile): lines 144-222.  A raised KeyError returns nothing.
compute_offers(p) ==
  LET st == OfferRules(p)
      unique_offers == Deduplicate(st.offers, {}, <<>>)
  IN  IF st.raised
      THEN [raised |-> TRUE, offers |-> <<>>, rationales |-> EmptyDict, total_ht |-> 0]
      ELSE [raised |-> FALSE, offers |-> unique_offers, rationales |-> st.rationales,
            total_ht |-> SumPrix(unique_offers)]

---------------------------------------------------------------------------
(* The inputs and the script                                               *)

\* Most sidebar widgets whose value differs from the one the first page load
\* shows (each option picked in the multiselect counts as one).
MaxChanged == 4

\* The number input's max_value (line 308).
MaxSalaries == 1000

\* Head-counts drawn: both sides of every threshold the rules compare with.
NbSalariesValues == {0, 1, 10, 11, 24, 25, MaxSalaries}

\* Lines 304-327: the widgets' values on the first page load, in sidebar order:
\* secteur, nb_salaries, presence_cadres, type_contrats, rse_sensible,
\* rse_pollution, coaching_client, patrimoine_dirigeant, particulier_fiscal,
\* caisse, patrimoniale, digitalisation, proche_retraite, succession_envisagee,
\* clients_particuliers_avec_tva.
WidgetDefaults ==
  <<SECTEURS[3], 0, FALSE, CONTRATS[1], FALSE, POLLUTION[1], FALSE, PATRIMOINE[1], {},
    FALSE, FALSE, DIGITAL[2], HORIZON_RETRAITE[1], FALSE, FALSE>>

\* Lines 317-321: the selections of the multiselect within the bound.
FiscalSelections == {sel \in SUBSET FISCAL_OPTIONS : Cardinality(sel) <= MaxChanged}

\* Lines 304-327: the values each widget offers.
WidgetChoices(i) ==
  CASE i = 1  -> Range(SECTEURS)
    [] i = 2  -> NbSalariesValues
    [] i = 4  -> Range(CONTRATS)
    [] i = 6  -> Range(POLLUTION)
    [] i = 8  -> Range(PATRIMOINE)
    [] i = 9  -> FiscalSelections
    [] i = 12 -> Range(DIGITAL)
    [] i = 13 -> Range(HORIZON_RETRAITE)
    [] OTHER  -> BOOLEAN

Changes(i, v) ==
  IF i = 9 THEN Cardinality(v) ELSE IF v = WidgetDefaults[i] THEN 0 ELSE 1

\* Lines 329-346: the profile built from the widgets' values.
ClientProfile(w) ==
  [nom_client |-> "Client DEMO",
   secteur |-> w[1],
   nb_salaries |-> w[2],
   presence_cadres |-> w[3],
   type_contrats |-> w[4],
   rse_sensible |-> w[5],
   rse_pollution |-> w[6],
   coaching_client |-> w[7],
   patrimoine_dirigeant |-> w[8],
   particulier_fiscal |-> w[9] \ {"TVA particuliers"},
   caisse |-> w[10],
   patrimoniale |-> w[11],
   digitalisation |-> w[12],
   proche_retraite |-> w[13],
   succession_envisagee |-> w[14],
   clients_particuliers_avec_tva |-> ("TVA particuliers" \in w[9]) \/ w[15]]

NoResult == [raised |-> FALSE, none |-> TRUE]

\* The sidebar holds any values of the vocabularies at most MaxChanged changes
\* away from the first page load; nothing is computed yet.
Init ==
  /\ \E w9 \in WidgetChoices(9) : LET c9 == Changes(9, w9) IN c9 <= MaxChanged /\
     \E w1 \in WidgetChoices(1) : LET c1 == c9 + Changes(1, w1) IN c1 <= MaxChanged /\
     \E w2 \in WidgetChoices(2) : LET c2 == c1 + Changes(2, w2) IN c2 <= MaxChanged /\
     \E w3 \in WidgetChoices(3) : LET c3 == c2 + Changes(3, w3) IN c3 <= MaxChanged /\
     \E w4 \in WidgetChoices(4) : LET c4 == c3 + Changes(4, w4) IN c4 <= MaxChanged /\
     \E w5 \in WidgetChoices(5) : LET c5 == c4 + Changes(5, w5) IN c5 <= MaxChanged /\
     \E w6 \in WidgetChoices(6) : LET c6 == c5 + Changes(6, w6) IN c6 <= MaxChanged /\
     \E w7 \in WidgetChoices(7) : LET c7 == c6 + Changes(7, w7) IN c7 <= MaxChanged /\
     \E w8 \in WidgetChoices(8) : LET c8 == c7 + Changes(8, w8) IN c8 <= MaxChanged /\
     \E w10 \in WidgetChoices(10) : LET c10 == c8 + Changes(10, w10) IN c10 <= MaxChanged /\
     \E w11 \in WidgetChoices(11) : LET c11 == c10 + Changes(11, w11) IN c11 <= MaxChanged /\
     \E w12 \in WidgetChoices(12) : LET c12 == c11 + Changes(12, w12) IN c12 <= MaxChanged /\
     \E w13 \in WidgetChoices(13) : LET c13 == c12 + Changes(13, w13) IN c13 <= MaxChanged /\
     \E w14 \in WidgetChoices(14) : LET c14 == c13 + Changes(14, w14) IN c14 <= MaxChanged /\
     \E w15 \in WidgetChoices(15) :
        /\ c14 + Changes(15, w15) <= MaxChanged
        /\ profile = ClientProfile(<<w1, w2, w3, w4, w5, w6, w7, w8, w9, w10, w11, w12,
                                     w13, w14, w15>>)
  /\ segment_info = NoResult
  /\ offers = <<>>
  /\ offers_info = NoResult
  /\ pc = "start"

\* Line 348: segment_info = infer_segment(profile).
InferSegment ==
  /\ pc = "start"
  /\ segment_info' = infer_segment(profile)
  /\ pc' = "segmented"
  /\ UNCHANGED <<profile, offers, offers_info>>

\* Line 349: offers_info = compute_offers(profile).
ComputeOffers ==
  /\ pc = "segmented"
  /\ offers' = OfferRules(profile).offers
  /\ offers_info' = compute_offers(profile)
  /\ pc' = "done"
  /\ UNCHANGED <<profile, segment_info>>

Next == InferSegment \/ ComputeOffers

Spec == Init /\ [][Next]_vars

---------------------------------------------------------------------------
(* Properties                                                              *)

Segmented == pc \in {"segmented", "done"}

Done == pc = "done"

\* The codes of an offer list, as a set.
CodeSet(os) == {os[i].code : i \in DOMAIN os}

\* The segment label holds the tag: alone, or followed by the sector tag.
HasSizeTag(tag) == segment_info.segment \in {tag, tag \o " | BTP"}

SizeTags == {"Solo/Tres petite structure", "TPE < 11", "PME >= 11"}

HRFlags == {"Cadres & forfait jours", "CSE / obligations sociales renforcees"}

ExactlyOneSizeTag ==
  /\ Cardinality({tag \in SizeTags : HasSizeTag(tag)}) = 1
  /\ segment_info.segment # "Standard"

\* C1: compliance_intensity is "Renforcee" exactly when secteur = "BTP", or
\* nb_salaries >= 11, or "International" is in particulier_fiscal, and
\* "Standard" otherwise; no block of rules sets it back to "Standard" once
\* it is "Renforcee".
C1_ComplianceIntensity ==
  Segmented =>
    /\ segment_info.compliance_intensity =
         IF \/ profile.secteur = "BTP"
            \/ profile.nb_salaries >= 11
            \/ "International" \in profile.particulier_fiscal
         THEN "Renforcee" ELSE "Standard"
    /\ LET tr == SegmentTrace(profile)
       IN  \A i \in 1..(Len(tr) - 1) :
             tr[i].compliance_intensity = "Renforcee"
               => tr[i + 1].compliance_intensity = "Renforcee"

\* C1 witness: exactly eleven employees outside BTP and without international
\* flows, classified "Renforcee".
C1_Witness ==
  /\ Segmented
  /\ profile.nb_salaries = 11
  /\ profile.secteur # "BTP"
  /\ "International" \notin profile.particulier_fiscal
  /\ segment_info.compliance_intensity = "Renforcee"

\* The sum of the catalog prices of the codes of an offer list.
RECURSIVE CatalogSum(_)
CatalogSum(os) ==
  IF os = <<>> THEN 0 ELSE PRICING_TABLE[Head(os).code].prix + CatalogSum(Tail(os))

\* C2: the returned offer list holds each code at most once and total_ht is
\* the sum of the catalog prices of the codes of that list.
C2_DedupAndTotal ==
  Done =>
    /\ ~offers_info.raised
    /\ \A i, j \in DOMAIN offers_info.offers :
         offers_info.offers[i].code = offers_info.offers[j].code => i = j
    /\ offers_info.total_ht = CatalogSum(offers_info.offers)

\* C2 witness: a returned list of at least eight offers with its total.
C2_Witness ==
  /\ Done
  /\ Len(offers_info.offers) >= 8
  /\ offers_info.total_ht > 2000

\* C3 as stated: exactly one size tag; "Solo" when nb_salaries = 0 or
\* type_contrats = "Aucun salarie", "TPE < 11" when nb_salaries is 1..10,
\* "PME >= 11" when nb_salaries >= 11.
C3_AsStated ==
  Segmented =>
    /\ ExactlyOneSizeTag
    /\ (profile.nb_salaries = 0 \/ profile.type_contrats = "Aucun salarie")
         => HasSizeTag("Solo/Tres petite structure")
    /\ profile.nb_salaries \in 1..10 => HasSizeTag("TPE < 11")
    /\ profile.nb_salaries >= 11 => HasSizeTag("PME >= 11")

\* C3 amended: exactly one size tag, never the fallback "Standard"; it is "Solo"
\* when nb_salaries = 0 or type_contrats = "Aucun salarie", and otherwise
\* "TPE < 11" when nb_salaries is 1..10 and "PME >= 11" when nb_salaries >= 11.
C3_SizeTag ==
  Segmented =>
    /\ ExactlyOneSizeTag
    /\ HasSizeTag(IF profile.nb_salaries = 0 \/ profile.type_contrats = "Aucun salarie"
                  THEN "Solo/Tres petite structure"
                  ELSE IF profile.nb_salaries \in 1..10 THEN "TPE < 11"
                  ELSE "PME >= 11")

\* C3 witness: ten employees under a real contract type, labelled "TPE < 11".
C3_Witness ==
  /\ Segmented
  /\ profile.nb_salaries = 10
  /\ profile.type_contrats # "Aucun salarie"
  /\ HasSizeTag("TPE < 11")

\* C4: the returned list never holds both codes of the social, coaching or
\* digital pair.
C4_MutualExclusion ==
  Done =>
    LET codes == CodeSet(offers_info.offers)
    IN  /\ ~({"social_basique", "social_plus"} \subseteq codes)
        /\ ~({"coaching_light", "coaching_pro"} \subseteq codes)
        /\ ~({"digital_start", "digital_full"} \subseteq codes)

\* C4 witness: one code of each of the three pairs is recommended.
C4_Witness ==
  /\ Done
  /\ {"social_plus", "coaching_pro", "digital_start"} \subseteq CodeSet(offers_info.offers)

\* Scenario A's profile: no employee, "Services", every toggle off,
\* rudimentary digitalisation.
ScenarioA ==
  /\ profile.nb_salaries = 0
  /\ profile.secteur = "Services"
  /\ ~profile.presence_cadres
  /\ ~profile.rse_sensible
  /\ ~profile.coaching_client
  /\ ~profile.caisse
  /\ ~profile.patrimoniale
  /\ ~profile.succession_envisagee
  /\ ~profile.clients_particuliers_avec_tva
  /\ profile.digitalisation = "Informatique rudimentaire"

ScenarioAResult ==
  /\ segment_info.segment = "Solo/Tres petite structure"
  /\ ~offers_info.raised
  /\ CodeSet(offers_info.offers) = {"digital_full", "gestion_budget", "revue_qualite"}
  /\ Len(offers_info.offers) = 3
  /\ offers_info.total_ht = 940

\* C5 as stated: scenario A gives the three offers and 940 whatever
\* patrimoine_dirigeant, proche_retraite, particulier_fiscal, rse_pollution and
\* type_contrats are.
C5_AsStated == (Done /\ ScenarioA) => ScenarioAResult

\* C5 amended: scenario A with patrimoine_dirigeant = "Modeste", proche_retraite
\* = "Loin" and no fiscal particularity gives segment "Solo", exactly
\* digital_full, gestion_budget and revue_qualite, and total_ht = 940, whatever
\* rse_pollution and type_contrats are.
C5_ScenarioA ==
  (/\ Done
   /\ ScenarioA
   /\ profile.patrimoine_dirigeant = "Modeste"
   /\ profile.proche_retraite = "Loin"
   /\ profile.particulier_fiscal = {}) => ScenarioAResult

\* C5 witness: scenario A evaluated with the two free fields off their defaults.
C5_Witness ==
  /\ Done
  /\ ScenarioA
  /\ profile.patrimoine_dirigeant = "Modeste"
  /\ profile.proche_retraite = "Loin"
  /\ profile.particulier_fiscal = {}
  /\ profile.rse_pollution = "Importante"
  /\ profile.type_contrats = "CDI"
  /\ offers_info.total_ht = 940

\* C6: every label of the returned list is a key of rationales with at least
\* one justification.
C6_RationaleComplete ==
  Done =>
    \A i \in DOMAIN offers_info.offers :
      /\ offers_info.offers[i].libelle \in DOMAIN offers_info.rationales
      /\ Len(offers_info.rationales[offers_info.offers[i].libelle]) >= 1

\* C6 witness: a returned list of at least eight offers, each with a rationale.
C6_Witness ==
  /\ Done
  /\ Len(offers_info.offers) >= 8
  /\ Cardinality(DOMAIN offers_info.rationales) >= 8

\* C7: both engines return a result for every profile: the catalog lookup of
\* compute_offers never fails, every code the rules passed to add_offer is a
\* key of PRICING_TABLE, and infer_segment returns one of its two levels.
C7_InputTotal ==
  /\ Segmented => segment_info.compliance_intensity \in {"Standard", "Renforcee"}
  /\ Done =>
       /\ ~offers_info.raised
       /\ CodeSet(offers) \subseteq DOMAIN PRICING_TABLE

\* C7 witness: a BTP profile whose rules reached the sector pack and the
\* transmission offers, all looked up in the catalog.
C7_Witness ==
  /\ Done
  /\ ~offers_info.raised
  /\ {"tresorerie", "btp_pack", "retraite", "succession"} \subseteq CodeSet(offers)

\* The fixed sequence of the rules' codes, alternatives sharing a place.
RuleOrder ==
  <<{"social_plus", "social_basique"}, {"social_premium"}, {"rse_diag"},
    {"rse_reporting"}, {"coaching_light", "coaching_pro"}, {"patrimoine_base"},
    {"patrimoine_avance"}, {"fiscal_part"}, {"international"}, {"tresorerie"},
    {"gestion_budget"}, {"revue_qualite"}, {"digital_start", "digital_full"},
    {"btp_pack"}, {"retraite"}, {"succession"}>>

\* The place of each code of the sequence.
Place == [code \in UNION Range(RuleOrder) |->
            CHOOSE i \in DOMAIN RuleOrder : code \in RuleOrder[i]]

\* The offers of raw whose code no earlier offer holds, in raw's order.
FirstOccurrences(raw) ==
  LET F[i \in 0..Len(raw)] ==
        IF i = 0 THEN <<>>
        ELSE IF \A j \in 1..(i - 1) : raw[j].code # raw[i].code
        THEN Append(F[i - 1], raw[i])
        ELSE F[i - 1]
  IN  F[Len(raw)]

\* C8: any two codes of the returned list appear in the order of the fixed
\* sequence of the rules, and the returned list is the raw list's first
\* occurrences in the raw list's order.
C8_RuleOrder ==
  Done =>
    /\ \A i \in DOMAIN offers_info.offers :
         offers_info.offers[i].code \in DOMAIN Place
    /\ \A i, j \in DOMAIN offers_info.offers :
         i < j => Place[offers_info.offers[i].code] < Place[offers_info.offers[j].code]
    /\ offers_info.offers = FirstOccurrences(offers)

\* C8 witness: offers from the first, a middle and the last rules together.
C8_Witness ==
  /\ Done
  /\ {"social_plus", "social_premium", "international", "btp_pack", "succession"}
       \subseteq CodeSet(offers_info.offers)

\* No two catalog codes share a label.
CatalogLabelsDistinct ==
  \A c, d \in DOMAIN PRICING_TABLE :
    PRICING_TABLE[c].libelle = PRICING_TABLE[d].libelle => c = d

\* C9: the raw list never holds a code twice and no two catalog codes share a
\* label, so the returned list is the raw list and rationales holds exactly
\* one justification per returned label and no other key.
C9_NoDuplicateEver ==
  /\ CatalogLabelsDistinct
  /\ Done =>
       /\ \A i, j \in DOMAIN offers : offers[i].code = offers[j].code => i = j
       /\ offers_info.offers = offers
       /\ DOMAIN offers_info.rationales =
            {offers_info.offers[i].libelle : i \in DOMAIN offers_info.offers}
       /\ \A l \in DOMAIN offers_info.rationales : Len(offers_info.rationales[l]) = 1

\* C9 witness: the two social rules both fired (25 employees or more).
C9_Witness ==
  /\ Done
  /\ profile.nb_salaries >= 25
  /\ {"social_plus", "social_premium"} \subseteq CodeSet(offers)

\* C10: a profile classified "Solo/Tres petite structure" gets neither HR risk
\* flag and none of the three social offers.
C10_SoloConsistency ==
  (Done /\ HasSizeTag("Solo/Tres petite structure")) =>
    /\ Range(segment_info.risk_flags) \cap HRFlags = {}
    /\ CodeSet(offers_info.offers)
         \cap {"social_basique", "social_plus", "social_premium"} = {}

=============================================================================
